---- MODULE Spec2Model ----
(***************************************************************************)
(* Model of pkg/hostman/guestman/qemu-kvmhelper.go (cloudpods host agent): *)
(*   - the migration command-line reconciler (parseCmdline,                *)
(*     _unifyMigrateQemuCmdline, unifyMigrateQemuCmdline),                 *)
(*   - the launch-options builder and script assembler                     *)
(*     (generateStartScript and its helpers),                              *)
(*   - the network presence announcer (StartPresendArp).                   *)
(*                                                                         *)
(* Text is modelled as a sequence of tokens: a flag token "-key", a value  *)
(* token, or a stray quote character.  An option value is a sequence of    *)
(* chunks, so that strings.HasPrefix is a comparison of the first chunk.   *)
(***************************************************************************)
EXTENDS Integers, Sequences, FiniteSets

VARIABLES
    cur,        \* reconciler: destination command-line text
    src,        \* reconciler: source command-line text
    upc,        \* reconciler: "ready" | "once" | "twice"
    res1,       \* result of unifyMigrateQemuCmdline(cur, src)
    res2,       \* result of unifyMigrateQemuCmdline(res1.text, src)
    guest,      \* SKVMGuestInstance: Desc and the instance's migration fields
    nicHeap,    \* the *GuestnetworkJsonDesc objects, by identity
    host,       \* host capabilities and options.HostOptions
    data,       \* the request passed to generateStartScript
    results,    \* one record per finished generateStartScript call
    arp         \* StartPresendArp: the caller and the background task

vars == <<cur, src, upc, res1, res2, guest, nicHeap, host, data, results, arp>>

unifyVars == <<cur, src, upc, res1, res2>>
startVars == <<guest, nicHeap, host, data, results>>

(***************************************************************************)
(* Bounds of the model.                                                    *)
(***************************************************************************)
MaxCurOpts == 2
MaxSrcOpts == 2
MaxNics == 2
MaxQueues == 2
MaxDisks == 2
MaxExtra == 2
MaxCalls == 2
MaxArpNics == 2

(***************************************************************************)
(* Generic helpers.                                                        *)
(***************************************************************************)
RECURSIVE Flatten(_)
Flatten(ss) == IF ss = <<>> THEN <<>> ELSE Head(ss) \o Flatten(Tail(ss))

Min(a, b) == IF a < b THEN a ELSE b

SeqsUpTo(S, n) == UNION { [1..k -> S] : k \in 0..n }

\* strings.HasPrefix on a chunked value
HasPrefix(v, p) == Len(v) >= 1 /\ v[1] = p

(***************************************************************************)
(* qemutils.Cmdline: parse, serialize, filter, append.                     *)
(***************************************************************************)
FlagTok(k) == [t |-> "flag", k |-> k, v |-> <<>>]
ValTok(v) == [t |-> "val", k |-> "", v |-> v]
QuoteTok == [t |-> "quote", k |-> "", v |-> <<>>]

Option(k, v) == [Key |-> k, Value |-> v]

WellFormed(text) ==
    \A i \in 1..Len(text) :
        /\ text[i].t # "quote"
        /\ text[i].t = "val" => (i > 1 /\ text[i-1].t = "flag")

ParseOpts(text) ==
    LET idx == SelectSeq([i \in 1..Len(text) |-> i], LAMBDA i : text[i].t = "flag")
    IN  [n \in 1..Len(idx) |->
            LET i == idx[n]
            IN  Option(text[i].k,
                       IF i < Len(text) /\ text[i+1].t = "val"
                       THEN text[i+1].v ELSE <<>>)]

NewCmdline(text) ==
    IF WellFormed(text)
    THEN [err |-> FALSE, options |-> ParseOpts(text)]
    ELSE [err |-> TRUE, options |-> <<>>]

OptionToString(o) ==
    IF o.Value = <<>> THEN <<FlagTok(o.Key)>>
    ELSE <<FlagTok(o.Key), ValTok(o.Value)>>

ToString(opts) == Flatten([i \in 1..Len(opts) |-> OptionToString(opts[i])])

AddOption(opts, more) == opts \o more

\* cl.FilterOption(f): drops the options f accepts (hit[i] is f's answer for the
\* i-th option), keeps the rest in order
FilterOption(opts, hit) ==
    LET idx == SelectSeq([i \in 1..Len(opts) |-> i], LAMBDA i : ~hit[i])
    IN  [n \in 1..Len(idx) |-> opts[idx[n]]]

(***************************************************************************)
(* parseCmdline: the classifier closure and the filtered command line.     *)
(***************************************************************************)
valsMatch ==
    { "socket,id=hmqmondev", "socket,id=hmpmondev",
      "socket,id=qmqmondev", "socket,id=qmpmondev" }

\* variant: the incoming option is accepted whatever its value
isDynamicOpt_anyIncoming(o) ==
    CASE o.Key = "incoming" -> TRUE
      [] o.Key = "vnc"      -> TRUE
      [] o.Key = "spice"    -> TRUE
      [] o.Key = "chardev"  -> \E valM \in valsMatch : HasPrefix(o.Value, valM)
      [] OTHER              -> FALSE

isDynamicOpt(o) ==
    CASE o.Key = "incoming" -> HasPrefix(o.Value, "tcp:") \/ HasPrefix(o.Value, "defer")
      [] o.Key = "vnc"      -> TRUE
      [] o.Key = "spice"    -> TRUE
      [] o.Key = "chardev"  -> \E valM \in valsMatch : HasPrefix(o.Value, valM)
      [] OTHER              -> FALSE

\* variant: the dynamic options are collected but left in the command line
parseCmdline_keepAll(input) ==
    LET cl == NewCmdline(input)
    IN  IF cl.err
        THEN [err |-> TRUE, cl |-> <<>>, filterOpts |-> <<>>]
        ELSE [err |-> FALSE,
              cl |-> cl.options,
              filterOpts |-> SelectSeq(cl.options, isDynamicOpt)]

parseCmdline(input) ==
    LET cl == NewCmdline(input)
    IN  IF cl.err
        THEN [err |-> TRUE, cl |-> <<>>, filterOpts |-> <<>>]
        ELSE [err |-> FALSE,
              cl |-> FilterOption(cl.options,
                                  [i \in 1..Len(cl.options) |-> isDynamicOpt(cl.options[i])]),
              filterOpts |-> SelectSeq(cl.options, isDynamicOpt)]

(***************************************************************************)
(* diffmatchpatch as _unifyMigrateQemuCmdline uses it: DiffMain trims the  *)
(* common prefix and suffix and replaces the middle; PatchMake wraps the   *)
(* change in a hunk with one token of context on each side; PatchApply     *)
(* applies a hunk where its context is found and skips it otherwise.       *)
(***************************************************************************)
RECURSIVE CommonPrefix(_, _)
CommonPrefix(a, b) ==
    IF a # <<>> /\ b # <<>> /\ Head(a) = Head(b)
    THEN 1 + CommonPrefix(Tail(a), Tail(b))
    ELSE 0

Reverse(s) == [i \in 1..Len(s) |-> s[Len(s) + 1 - i]]

DiffMain(text1, text2) ==
    LET p  == CommonPrefix(text1, text2)
        r1 == SubSeq(text1, p + 1, Len(text1))
        r2 == SubSeq(text2, p + 1, Len(text2))
        s  == CommonPrefix(Reverse(r1), Reverse(r2))
        all == << [op |-> "equal",  text |-> SubSeq(text1, 1, p)],
                  [op |-> "delete", text |-> SubSeq(r1, 1, Len(r1) - s)],
                  [op |-> "insert", text |-> SubSeq(r2, 1, Len(r2) - s)],
                  [op |-> "equal",  text |-> SubSeq(r1, Len(r1) - s + 1, Len(r1))] >>
    IN  SelectSeq(all, LAMBDA d : d.text # <<>>)

DiffText(diffs, op) ==
    Flatten([i \in 1..Len(diffs) |-> IF diffs[i].op = op THEN diffs[i].text ELSE <<>>])

PatchMake(text1, diffs) ==
    IF \A i \in 1..Len(diffs) : diffs[i].op = "equal"
    THEN <<>>
    ELSE LET pre  == IF diffs[1].op = "equal" THEN diffs[1].text ELSE <<>>
             post == IF diffs[Len(diffs)].op = "equal" /\ Len(diffs) > 1
                     THEN diffs[Len(diffs)].text ELSE <<>>
             cb   == SubSeq(pre, Len(pre) - Min(1, Len(pre)) + 1, Len(pre))
             ca   == SubSeq(post, 1, Min(1, Len(post)))
         IN  << [start |-> Len(pre) - Len(cb) + 1,
                 text1 |-> cb \o DiffText(diffs, "delete") \o ca,
                 text2 |-> cb \o DiffText(diffs, "insert") \o ca] >>

RECURSIVE PatchApply(_, _)
PatchApply(patches, text) ==
    IF patches = <<>> THEN text
    ELSE LET h    == Head(patches)
             stop == h.start + Len(h.text1) - 1
             new  == IF stop <= Len(text) /\ SubSeq(text, h.start, stop) = h.text1
                     THEN SubSeq(text, 1, h.start - 1) \o h.text2
                          \o SubSeq(text, stop + 1, Len(text))
                     ELSE text
         IN  PatchApply(Tail(patches), new)

_unifyMigrateQemuCmdline(c, s) ==
    LET diffs == DiffMain(c, s)
        patch == PatchMake(c, diffs)
    IN  PatchApply(patch, c)

UnifyErr == [err |-> TRUE, text |-> <<>>]

\* variant: the source's dynamic options are appended instead of the destination's
unifyMigrateQemuCmdline_srcOpts(c, s) ==
    LET curP == parseCmdline(c)
        srcP == parseCmdline(s)
    IN  IF curP.err THEN UnifyErr
        ELSE IF srcP.err THEN UnifyErr
        ELSE LET unifyStr == _unifyMigrateQemuCmdline(ToString(curP.cl), ToString(srcP.cl))
                 unifyP   == parseCmdline(unifyStr)
             IN  IF unifyP.err THEN UnifyErr
                 ELSE [err |-> FALSE,
                       text |-> ToString(AddOption(unifyP.cl, srcP.filterOpts))]

\* variant: a content mismatch between the two stable texts is raised as an error
unifyMigrateQemuCmdline_strict(c, s) ==
    LET curP == parseCmdline(c)
        srcP == parseCmdline(s)
    IN  IF curP.err THEN UnifyErr
        ELSE IF srcP.err THEN UnifyErr
        ELSE IF \E i \in 1..Len(DiffMain(ToString(curP.cl), ToString(srcP.cl))) :
                    DiffMain(ToString(curP.cl), ToString(srcP.cl))[i].op = "delete"
        THEN UnifyErr
        ELSE LET unifyStr == _unifyMigrateQemuCmdline(ToString(curP.cl), ToString(srcP.cl))
                 unifyP   == parseCmdline(unifyStr)
             IN  IF unifyP.err THEN UnifyErr
                 ELSE [err |-> FALSE,
                       text |-> ToString(AddOption(unifyP.cl, curP.filterOpts))]

unifyMigrateQemuCmdline(c, s) ==
    LET curP == parseCmdline(c)
        srcP == parseCmdline(s)
    IN  IF curP.err THEN UnifyErr
        ELSE IF srcP.err THEN UnifyErr
        ELSE LET unifyStr == _unifyMigrateQemuCmdline(ToString(curP.cl), ToString(srcP.cl))
                 unifyP   == parseCmdline(unifyStr)
             IN  IF unifyP.err THEN UnifyErr
                 ELSE [err |-> FALSE,
                       text |-> ToString(AddOption(unifyP.cl, curP.filterOpts))]

(***************************************************************************)
(* The reconciler's inputs: rendered command lines of the destination and  *)
(* of the source host, and a few texts that do not parse.                  *)
(***************************************************************************)
CurPool ==
    { Option("incoming", <<"tcp:", "dst">>),
      Option("incoming", <<"exec:", "dst">>),
      Option("vnc", <<":", "dst">>),
      Option("chardev", <<"socket,id=hmqmondev", "dst">>),
      Option("chardev", <<"socket,id=charserial0", "dst">>),
      Option("m", <<"1G">>),
      Option("m", <<"2G">>),
      Option("S", <<>>) }

SrcPool ==
    { Option("vnc", <<":", "src">>),
      Option("incoming", <<"exec:", "src">>),
      Option("m", <<"2G">>),
      Option("cpu", <<"host">>),
      Option("S", <<>>) }

Texts(pool, n) ==
    { ToString(o) : o \in SeqsUpTo(pool, n) }
        \cup { ToString(o) \o <<QuoteTok>> : o \in SeqsUpTo(pool, 1) }
        \cup { <<ValTok(<<"1G">>)>> }

NoResult == [err |-> FALSE, text |-> <<>>]

UnifyIdle ==
    /\ cur = <<>> /\ src = <<>> /\ upc = "off"
    /\ res1 = NoResult /\ res2 = NoResult

\* the first reconciliation of the destination text against the source text
Unify ==
    /\ upc = "ready"
    /\ res1' = unifyMigrateQemuCmdline(cur, src)
    /\ upc' = "once"
    /\ UNCHANGED <<cur, src, res2, startVars, arp>>

\* the unified text reconciled against the same source a second time
UnifyAgain ==
    /\ upc = "once"
    /\ ~res1.err
    /\ res2' = unifyMigrateQemuCmdline(res1.text, src)
    /\ upc' = "twice"
    /\ UNCHANGED <<cur, src, res1, startVars, arp>>

(***************************************************************************)
(* The guest instance: descriptor accessors.                               *)
(***************************************************************************)
OS_NAME_LINUX   == "Linux"
OS_NAME_WINDOWS == "Windows"
OS_NAME_MACOS   == "macOS"
OS_NAME_ANDROID == "Android"
OS_NAME_VMWARE  == "VMWare"
OS_NAME_CIRROS  == "Cirros"
OS_NAME_OPENWRT == "OpenWrt"
DISK_DRIVER_SATA == "sata"
BIOS_UEFI == "UEFI"
VM_MACHINE_TYPE_PC == "pc"
VM_MACHINE_TYPE_Q35 == "q35"
Arch_aarch64 == "aarch64"
Arch_x86_64 == "x86_64"
ARCH_X86 == { "x86", "i386", "x86_32", "x86_64" }

\* a metadata key that is not in the map
NoKey == "<absent>"

getOsname(g) ==
    IF g.Metadata.os_name # NoKey THEN g.Metadata.os_name ELSE OS_NAME_LINUX

disableUsbKbd(g) == g.Metadata.disable_usb_kbd = "true"

getOsDistribution(g) == g.Metadata.os_distribution

getOsVersion(g) == g.Metadata.os_version

\* variant: the length test is off by one
isOldWindows_longer(g) ==
    IF getOsname(g) = OS_NAME_WINDOWS
    THEN LET ver == getOsVersion(g)
         IN  Len(ver) > 2 /\ SubSeq(ver, 1, 2) = <<"5", ".">>
    ELSE FALSE

\* the version is a sequence of characters
isOldWindows(g) ==
    IF getOsname(g) = OS_NAME_WINDOWS
    THEN LET ver == getOsVersion(g)
         IN  Len(ver) > 1 /\ SubSeq(ver, 1, 2) = <<"5", ".">>
    ELSE FALSE

\* strings.ToLower, chunk by chunk, on the distributions the model draws
ToLower(chunks) ==
    [i \in 1..Len(chunks) |->
        CASE chunks[i] = "Windows 10"  -> "windows 10"
          [] chunks[i] = "WINDOWS 10"  -> "windows 10"
          [] chunks[i] = "Windows "    -> "windows "
          [] chunks[i] = "Server 2003" -> "server 2003"
          [] chunks[i] = " Pro"        -> " pro"
          [] chunks[i] = "OpenWrt"     -> "openwrt"
          [] chunks[i] = "Cirros"      -> "cirros"
          [] OTHER                     -> chunks[i]]

Contains(chunks, sub) == \E i \in 1..Len(chunks) : chunks[i] = sub

isWindows10(g) ==
    IF getOsname(g) = OS_NAME_WINDOWS
    THEN Contains(ToLower(getOsDistribution(g)), "windows 10")
    ELSE FALSE

getMachine(g) == IF g.Machine = "" THEN VM_MACHINE_TYPE_PC ELSE g.Machine

getBios(g) == IF g.Bios = "" THEN "bios" ELSE g.Bios

(***************************************************************************)
(* Host queries and collaborators.                                         *)
(***************************************************************************)
Nil == "<nil>"

GetBridgeDev(h, bridge) == IF bridge \in h.bridges THEN bridge ELSE Nil

IsAarch64(h) == h.cpuArch = Arch_aarch64

LIVE_MIGRATE_PORT_BASE == 4396

RECURSIVE FreePortFrom(_, _)
FreePortFrom(h, p) == IF p \in h.usedPorts THEN FreePortFrom(h, p + 1) ELSE p

GetFreePortByBase(h, base) == FreePortFrom(h, base + 1)

GenerateStartOptions(input) == [cmdline |-> input]

(***************************************************************************)
(* NIC script paths.  dev.Bridge() on a nil bridge device is a nil         *)
(* dereference: the call panics.                                           *)
(***************************************************************************)
getNicUpScriptPath(h, nic) ==
    LET dev == GetBridgeDev(h, nic.Bridge)
    IN  IF dev = Nil THEN [panic |-> TRUE, path |-> <<>>]
        ELSE [panic |-> FALSE, path |-> <<"if-up", dev, nic.Ifname>>]

getNicDownScriptPath(h, nic) ==
    LET dev == GetBridgeDev(h, nic.Bridge)
    IN  IF dev = Nil THEN [panic |-> TRUE, path |-> <<>>]
        ELSE [panic |-> FALSE, path |-> <<"if-down", dev, nic.Ifname>>]

generateNicScripts(h, nic) ==
    LET dev == GetBridgeDev(h, nic.Bridge)
    IN  IF dev = Nil THEN "Can't find bridge"
        ELSE IF ~h.ifupOk THEN "GenerateIfupScripts"
        ELSE IF ~h.ifdownOk THEN "GenerateIfdownScripts"
        ELSE ""

\* the map ExtraOptions is ranged over in an order the runtime picks
Orders(S) ==
    { f \in [1..Cardinality(S) -> S] : \A i, j \in 1..Cardinality(S) : i # j => f[i] # f[j] }

extraOptions(order) ==
    Flatten([i \in 1..Len(order) |->
                [n \in 1..Len(order[i].vals) |-> <<order[i].k, order[i].vals[n]>>]])

(***************************************************************************)
(* generateStartScript, block by block.                                    *)
(***************************************************************************)
Range(f) == { f[i] : i \in DOMAIN f }

\* variant: the administrative switch is not consulted
kvmArg_ignoreDisable(h) ==
    IF h.kvmSupport THEN "-enable-kvm"
    ELSE IF h.cpuArch \in ARCH_X86 THEN "-no-kvm"
    ELSE ""

\* the acceleration argument of the script
kvmArg(h) ==
    IF h.kvmSupport /\ ~h.DisableKVM THEN "-enable-kvm"
    ELSE IF h.cpuArch \in ARCH_X86 THEN "-no-kvm"
    ELSE ""

NoCpuInfo ==
    [EnableKVM |-> FALSE, HostCPUPassthrough |-> FALSE, IsCPUIntel |-> FALSE,
     IsCPUAMD |-> FALSE, EnableNested |-> FALSE]

\* inject cpu info
injectCpuInfo(h) ==
    IF h.kvmSupport /\ ~h.DisableKVM
    THEN [EnableKVM |-> TRUE,
          HostCPUPassthrough |-> h.HostCpuPassthrough,
          IsCPUIntel |-> h.isIntel,
          IsCPUAMD |-> h.isAmd,
          EnableNested |-> h.nested]
    ELSE NoCpuInfo

\* UEFI on aarch64
injectBios(qemuArch, bios) ==
    IF qemuArch = Arch_aarch64 /\ bios # BIOS_UEFI THEN BIOS_UEFI ELSE bios

\* queue count > 1: vectors = 2 * queues, on every NIC of input.Nics
injectNicVectors(heap, ids) ==
    [n \in DOMAIN heap |->
        IF n \in Range(ids) /\ heap[n].NumQueues > 1
        THEN [heap[n] EXCEPT !.Vectors = <<heap[n].NumQueues * 2>>]
        ELSE heap[n]]

\* variant: the driver is forced but the vector count is left as computed
injectMacosNics_keepVectors(heap, ids) ==
    [n \in DOMAIN heap |->
        IF n \in Range(ids)
        THEN [heap[n] EXCEPT !.Driver = "e1000"]
        ELSE heap[n]]

\* macOS: every NIC is an e1000 with no vectors
injectMacosNics(heap, ids) ==
    [n \in DOMAIN heap |->
        IF n \in Range(ids)
        THEN [heap[n] EXCEPT !.Vectors = <<0>>, !.Driver = "e1000"]
        ELSE heap[n]]

injectMacosDisks(disks) ==
    [i \in 1..Len(disks) |-> [disks[i] EXCEPT !.Driver = DISK_DRIVER_SATA]]

\* variant: the NIC list is left as configured
injectAndroidNics_keepAll(ids) == ids

\* Android: s.Desc.Nics = input.Nics[:1] when there are several
injectAndroidNics(ids) == IF Len(ids) > 1 THEN SubSeq(ids, 1, 1) ELSE ids

\* inject devices
injectDevices(g, qemuArch, osName) ==
    IF qemuArch = Arch_aarch64
    THEN << <<"qemu-xhci", "p2=8,p3=8,id=usb1">>,
            <<"usb-tablet", "id=input0,bus=usb1.0,port=1">>,
            <<"usb-kbd", "id=input1,bus=usb1.0,port=2">>,
            <<"virtio-gpu-pci", "id=video1,max_outputs=1">> >>
    ELSE (IF /\ getOsDistribution(g) \notin { <<OS_NAME_OPENWRT>>, <<OS_NAME_CIRROS>> }
             /\ ~isOldWindows(g) /\ ~isWindows10(g)
             /\ ~disableUsbKbd(g)
          THEN << <<"usb-kbd">> >> ELSE <<>>)
         \o (IF osName = OS_NAME_ANDROID THEN << <<"usb-mouse">> >>
             ELSE IF ~isOldWindows(g) THEN << <<"usb-tablet">> >>
             ELSE <<>>)

\* reinject nics: the loop stops at the first NIC whose scripts fail
RECURSIVE reinjectNics(_, _, _, _)
reinjectNics(h, osName, heap, ids) ==
    IF ids = <<>> THEN [err |-> "", panic |-> FALSE, heap |-> heap]
    ELSE LET n    == Head(ids)
             nic1 == IF osName = OS_NAME_VMWARE
                     THEN [heap[n] EXCEPT !.Driver = "vmxnet3"] ELSE heap[n]
             e    == generateNicScripts(h, nic1)
             up   == getNicUpScriptPath(h, nic1)
             down == getNicDownScriptPath(h, nic1)
             h1   == [heap EXCEPT ![n] = nic1]
         IN  IF e # "" THEN [err |-> e, panic |-> FALSE, heap |-> h1]
             ELSE IF up.panic \/ down.panic THEN [err |-> "", panic |-> TRUE, heap |-> h1]
             ELSE reinjectNics(h, osName,
                               [heap EXCEPT ![n] = [nic1 EXCEPT !.UpscriptPath = up.path,
                                                                !.DownscriptPath = down.path]],
                               Tail(ids))

\* variant: the descriptor's slave flag is looked at before the request
injectMigrate_slaveFirst(g, h, d) ==
    IF g.IsSlave
    THEN [NeedMigrate |-> FALSE, IsSlave |-> TRUE, IsMaster |-> FALSE,
          LiveMigratePort |-> GetFreePortByBase(h, LIVE_MIGRATE_PORT_BASE),
          LiveMigrateUseTLS |-> FALSE,
          allocs |-> 1]
    ELSE IF d.need_migrate
    THEN [NeedMigrate |-> TRUE, IsSlave |-> FALSE, IsMaster |-> FALSE,
          LiveMigratePort |-> GetFreePortByBase(h, LIVE_MIGRATE_PORT_BASE),
          LiveMigrateUseTLS |-> d.live_migrate_use_tls,
          allocs |-> 1]
    ELSE [NeedMigrate |-> FALSE, IsSlave |-> FALSE, IsMaster |-> g.IsMaster,
          LiveMigratePort |-> 0,
          LiveMigrateUseTLS |-> FALSE,
          allocs |-> 0]

\* migration role: need_migrate, else slave, else master
injectMigrate(g, h, d) ==
    IF d.need_migrate
    THEN [NeedMigrate |-> TRUE, IsSlave |-> FALSE, IsMaster |-> FALSE,
          LiveMigratePort |-> GetFreePortByBase(h, LIVE_MIGRATE_PORT_BASE),
          LiveMigrateUseTLS |-> d.live_migrate_use_tls,
          allocs |-> 1]
    ELSE IF g.IsSlave
    THEN [NeedMigrate |-> FALSE, IsSlave |-> TRUE, IsMaster |-> FALSE,
          LiveMigratePort |-> GetFreePortByBase(h, LIVE_MIGRATE_PORT_BASE),
          LiveMigrateUseTLS |-> FALSE,
          allocs |-> 1]
    ELSE [NeedMigrate |-> FALSE, IsSlave |-> FALSE, IsMaster |-> g.IsMaster,
          LiveMigratePort |-> 0,
          LiveMigrateUseTLS |-> FALSE,
          allocs |-> 0]

\* the instance fields a migration-receiving call records
recordMigrate(g, d, mig) ==
    IF d.need_migrate
    THEN [g EXCEPT !.LiveMigrateDestPort = <<mig.LiveMigratePort>>,
                   !.LiveMigrateUseTls = (g.LiveMigrateUseTls \/ d.live_migrate_use_tls)]
    ELSE g

(***************************************************************************)
(* generateStartScript: the whole call.  It returns the outcome ("ok" with *)
(* a script, "error", or "panic"), the launch options handed to            *)
(* qemu.GenerateStartOptions, and the guest and NIC objects as the call    *)
(* leaves them.                                                            *)
(***************************************************************************)
Ret(kind, err, g, heap) ==
    [outcome |-> kind, err |-> err, script |-> <<>>, input |-> <<>>,
     guest |-> g, heap |-> heap]

generateStartScript(g, heap, h, d, order) ==
    LET osName   == getOsname(g)
        ids      == g.Nics
        isMac    == osName = OS_NAME_MACOS
        g1       == IF isMac
                    THEN [g EXCEPT !.Machine = VM_MACHINE_TYPE_Q35, !.Bios = BIOS_UEFI]
                    ELSE g
        bios0    == IF isMac THEN BIOS_UEFI ELSE getBios(g)
        qemuArch == IF IsAarch64(h) THEN Arch_aarch64 ELSE Arch_x86_64
        downs    == [i \in 1..Len(ids) |-> getNicDownScriptPath(h, heap[ids[i]])]
        teardown == [i \in 1..Len(ids) |-> <<downs[i].path, heap[ids[i]].Ifname>>]
        heap1    == injectNicVectors(heap, ids)
        heap2    == IF isMac THEN injectMacosNics(heap1, ids) ELSE heap1
        g2       == [g1 EXCEPT
                        !.Disks = IF isMac THEN injectMacosDisks(g1.Disks) ELSE g1.Disks,
                        !.Nics  = IF ~isMac /\ osName = OS_NAME_ANDROID
                                  THEN injectAndroidNics(ids) ELSE ids]
        inNics   == g2.Nics
        re       == reinjectNics(h, osName, heap2, inNics)
        mig      == injectMigrate(g2, h, d)
        g3       == recordMigrate(g2, d, mig)
        cpu      == injectCpuInfo(h)
        input    == [OsName |-> osName,
                     NicIds |-> inNics,
                     Nics |-> [i \in 1..Len(inNics) |-> re.heap[inNics[i]]],
                     Disks |-> g2.Disks,
                     Machine |-> getMachine(g1),
                     BIOS |-> injectBios(qemuArch, bios0),
                     QemuArch |-> qemuArch,
                     HugepagesEnabled |-> h.hugepages,
                     VNCPort |-> d.vnc_port,
                     EncryptKey |-> d.encrypt_key,
                     EnableKVM |-> cpu.EnableKVM,
                     HostCPUPassthrough |-> cpu.HostCPUPassthrough,
                     IsCPUIntel |-> cpu.IsCPUIntel,
                     IsCPUAMD |-> cpu.IsCPUAMD,
                     EnableNested |-> cpu.EnableNested,
                     IsKVMSupport |-> h.kvmSupport,
                     Devices |-> injectDevices(g2, qemuArch, osName),
                     ExtraOptions |-> extraOptions(order),
                     NeedMigrate |-> mig.NeedMigrate,
                     IsSlave |-> mig.IsSlave,
                     IsMaster |-> mig.IsMaster,
                     LiveMigratePort |-> mig.LiveMigratePort,
                     LiveMigrateUseTLS |-> mig.LiveMigrateUseTLS,
                     portAllocs |-> mig.allocs]
        script   == [teardown |-> teardown,
                     hugepages |-> h.hugepages,
                     vncPort |-> d.vnc_port,
                     kvmArg |-> kvmArg(h),
                     qemuOpts |-> GenerateStartOptions(input)]
    IN  IF d.encrypt_key /\ ~h.keyFileOk
        THEN Ret("error", "save encrypt key file", g, heap)
        ELSE IF \E i \in 1..Len(ids) : downs[i].panic
        THEN Ret("panic", "", g1, heap)
        ELSE IF ~h.diskSetupOk
        THEN Ret("error", "generateDiskSetupScripts", g1, heap)
        ELSE IF re.panic
        THEN Ret("panic", "", g2, re.heap)
        ELSE IF re.err # ""
        THEN Ret("error", re.err, g2, re.heap)
        ELSE IF ~h.startOptsOk
        THEN Ret("error", "GenerateStartCommand", g3, re.heap)
        ELSE [outcome |-> "ok", err |-> "", script |-> <<script>>, input |-> <<input>>,
              guest |-> g3, heap |-> re.heap]

(***************************************************************************)
(* Guests, hosts and requests the start script is generated for.           *)
(***************************************************************************)
BaseMeta ==
    [os_name |-> NoKey, os_version |-> <<>>, os_distribution |-> <<>>,
     disable_usb_kbd |-> ""]

BaseGuest ==
    [Machine |-> "", Bios |-> "", Nics |-> <<>>, Disks |-> <<>>,
     IsSlave |-> FALSE, IsMaster |-> FALSE, Metadata |-> BaseMeta,
     ExtraOptions |-> {}, LiveMigrateDestPort |-> <<>>, LiveMigrateUseTls |-> FALSE]

BaseHost ==
    [kvmSupport |-> TRUE, DisableKVM |-> FALSE, cpuArch |-> "x86_64",
     HostCpuPassthrough |-> TRUE, isIntel |-> TRUE, isAmd |-> FALSE, nested |-> FALSE,
     hugepages |-> FALSE, bridges |-> {"br0"}, usedPorts |-> {},
     keyFileOk |-> TRUE, diskSetupOk |-> TRUE, startOptsOk |-> TRUE,
     ifupOk |-> TRUE, ifdownOk |-> TRUE]

BaseData ==
    [need_migrate |-> FALSE, live_migrate_use_tls |-> FALSE, encrypt_key |-> FALSE,
     vnc_port |-> 1]

\* a NIC object as the orchestration layer hands it over
MkNic(i, ok, q) ==
    [Ifname |-> i, Bridge |-> IF ok THEN "br0" ELSE "br-gone", NumQueues |-> q,
     Vectors |-> <<>>, Driver |-> "virtio", UpscriptPath |-> <<>>, DownscriptPath |-> <<>>]

NicSpecs == [ok : BOOLEAN, q : 0..MaxQueues]

MkHeap(specs) == [i \in 1..Len(specs) |-> MkNic(i, specs[i].ok, specs[i].q)]

MkDisks(n) == [i \in 1..n |-> [Index |-> i, Driver |-> IF i = 1 THEN "virtio" ELSE "scsi"]]

MkExtra(n) ==
    { [k |-> i, vals |-> IF i = 1 THEN <<"on">> ELSE <<"a", "b">>] : i \in 1..n }

Ids(n) == [i \in 1..n |-> i]

Scenario(g, heap, h, d) == [guest |-> g, heap |-> heap, host |-> h, data |-> d]

OsNames ==
    { NoKey, OS_NAME_LINUX, OS_NAME_WINDOWS, OS_NAME_MACOS, OS_NAME_ANDROID, OS_NAME_VMWARE }

Versions == { <<>>, <<"5">>, <<"5", ".">>, <<"5", ".", "2">>, <<"6", ".", "1">> }

Distributions ==
    { <<>>, <<"Windows 10", " Pro">>, <<"Windows ", "Server 2003">>, <<OS_NAME_OPENWRT>> }

Archs == { "x86_64", "i386", "aarch64" }

\* the device and firmware rules only tell aarch64 from the rest
OsArchs == { "x86_64", "aarch64" }

TwoNics == << [ok |-> TRUE, q |-> 2], [ok |-> TRUE, q |-> 1] >>

\* NIC lists, per OS name
NicScenarios ==
    { Scenario([BaseGuest EXCEPT !.Metadata.os_name = os, !.Nics = Ids(Len(specs))],
               MkHeap(specs), BaseHost, BaseData) :
        os \in { OS_NAME_LINUX, OS_NAME_MACOS, OS_NAME_ANDROID, OS_NAME_VMWARE },
        specs \in SeqsUpTo(NicSpecs, MaxNics) }

\* extra options and hugepages
ExtraScenarios ==
    { Scenario([BaseGuest EXCEPT !.Metadata.os_name = os, !.Nics = Ids(Len(TwoNics)),
                                 !.ExtraOptions = MkExtra(x)],
               MkHeap(TwoNics), [BaseHost EXCEPT !.hugepages = hp], BaseData) :
        os \in { OS_NAME_LINUX, OS_NAME_ANDROID },
        x \in 0..MaxExtra, hp \in BOOLEAN }

\* OS metadata, machine and firmware, per host architecture
OsScenarios ==
    { Scenario([BaseGuest EXCEPT !.Metadata = [os_name |-> os, os_version |-> ver,
                                               os_distribution |-> dist,
                                               disable_usb_kbd |-> kbd],
                                 !.Machine = mb[1], !.Bios = mb[2],
                                 !.Nics = Ids(Len(TwoNics)), !.Disks = MkDisks(nd)],
               MkHeap(TwoNics), [BaseHost EXCEPT !.cpuArch = arch], BaseData) :
        os \in OsNames, ver \in Versions, dist \in Distributions,
        kbd \in { "", "true" }, arch \in OsArchs,
        mb \in { <<"", "">>, <<"pc", "BIOS">>, <<"q35", "UEFI">> },
        nd \in 0..MaxDisks }

\* host acceleration capabilities
KvmScenarios ==
    { Scenario([BaseGuest EXCEPT !.Nics = Ids(1)], MkHeap(<<[ok |-> TRUE, q |-> 1]>>),
               [BaseHost EXCEPT !.cpuArch = arch, !.kvmSupport = kvm, !.DisableKVM = dis,
                                !.HostCpuPassthrough = pt, !.nested = nest,
                                !.isIntel = intel, !.isAmd = ~intel],
               BaseData) :
        arch \in Archs, kvm \in BOOLEAN, dis \in BOOLEAN, pt \in BOOLEAN,
        nest \in BOOLEAN, intel \in BOOLEAN }

\* migration roles and the ports already taken on the host
RoleScenarios ==
    { Scenario([BaseGuest EXCEPT !.IsSlave = sl, !.IsMaster = ma],
               <<>>,
               [BaseHost EXCEPT !.usedPorts = used],
               [BaseData EXCEPT !.need_migrate = nm, !.live_migrate_use_tls = tls]) :
        sl \in BOOLEAN, ma \in BOOLEAN, nm \in BOOLEAN, tls \in BOOLEAN,
        used \in { {}, {LIVE_MIGRATE_PORT_BASE + 1} } }

\* collaborators that fail
FailScenarios ==
    { Scenario([BaseGuest EXCEPT !.Nics = Ids(Len(specs))], MkHeap(specs),
               [BaseHost EXCEPT !.keyFileOk = f[1], !.diskSetupOk = f[2],
                                !.startOptsOk = f[3], !.ifupOk = f[4], !.ifdownOk = f[5],
                                !.hugepages = hp],
               [BaseData EXCEPT !.encrypt_key = key]) :
        specs \in SeqsUpTo([ok : BOOLEAN, q : {1}], 1),
        f \in [1..5 -> BOOLEAN], hp \in BOOLEAN, key \in BOOLEAN }

\* an instance an earlier migration left its port and TLS flag on
MigratedBeforeScenarios ==
    { Scenario([BaseGuest EXCEPT !.IsSlave = sl, !.IsMaster = ma,
                                 !.LiveMigrateDestPort = <<LIVE_MIGRATE_PORT_BASE + 1>>,
                                 !.LiveMigrateUseTls = TRUE],
               <<>>,
               [BaseHost EXCEPT !.usedPorts = {LIVE_MIGRATE_PORT_BASE + 1}],
               [BaseData EXCEPT !.need_migrate = nm, !.live_migrate_use_tls = tls]) :
        sl \in BOOLEAN, ma \in BOOLEAN, nm \in BOOLEAN, tls \in BOOLEAN }

StartScenarios ==
    NicScenarios \cup ExtraScenarios \cup OsScenarios \cup KvmScenarios \cup RoleScenarios
        \cup MigratedBeforeScenarios \cup FailScenarios

StartIdle ==
    /\ guest = BaseGuest /\ nicHeap = <<>> /\ host = BaseHost /\ data = BaseData
    /\ results = <<>>

\* one call of generateStartScript on the guest, with the same request
GenerateStartScript ==
    /\ Len(results) < MaxCalls
    /\ results # <<>> => results[Len(results)].outcome # "panic"
    /\ \E order \in Orders(guest.ExtraOptions) :
          LET r == generateStartScript(guest, nicHeap, host, data, order)
          IN  /\ guest' = r.guest
              /\ nicHeap' = r.heap
              /\ results' = Append(results,
                                   [outcome |-> r.outcome, err |-> r.err,
                                    script |-> r.script, input |-> r.input,
                                    nicsBefore |-> guest.Nics, heapBefore |-> nicHeap,
                                    nicsAfter |-> r.guest.Nics, heapAfter |-> r.heap])
    /\ UNCHANGED <<host, data, unifyVars, arp>>

(***************************************************************************)
(* StartPresendArp: the caller spawns the task and returns; the task runs  *)
(* ArpRounds rounds, one presendArpForNic per NIC and then a sleep of one  *)
(* second.                                                                 *)
(***************************************************************************)
ArpRounds == 5

ArpOutcomes ==
    { "InterfaceByName error", "arp Dial error", "parse mac error",
      "New arp packet error", "Send arp packet error", "sent" }

ArpOff ==
    [caller |-> "off", pc |-> "none", i |-> 0, j |-> 0, n |-> 0,
     attempts |-> <<>>, sent |-> <<>>, clock |-> 0]

ArpIdle == arp = ArpOff

\* variant: a failure ends the task instead of the single attempt
presendArpForNic_fatal(outcome) ==
    [sent |-> outcome = "sent", abort |-> outcome # "sent"]

\* one call for one NIC: every failure logs and returns to the loop
presendArpForNic(outcome) ==
    [sent |-> outcome = "sent", abort |-> FALSE]

StartPresendArp ==
    /\ arp.caller = "idle"
    /\ arp' = [arp EXCEPT !.caller = "returned",
                          !.pc = IF 0 < ArpRounds THEN "nics" ELSE "done",
                          !.i = 0, !.j = 1]
    /\ UNCHANGED <<unifyVars, startVars>>

ArpAttempt ==
    /\ arp.pc = "nics"
    /\ arp.j <= arp.n
    /\ \E outcome \in ArpOutcomes :
          LET r == presendArpForNic(outcome)
          IN  arp' = [arp EXCEPT
                        !.attempts[arp.j] = @ + 1,
                        !.sent[arp.j] = IF r.sent THEN @ + 1 ELSE @,
                        !.j = @ + 1,
                        !.pc = IF r.abort THEN "done" ELSE @]
    /\ UNCHANGED <<unifyVars, startVars>>

ArpSleep ==
    /\ arp.pc = "nics"
    /\ arp.j > arp.n
    /\ arp' = [arp EXCEPT !.clock = @ + 1,
                          !.i = @ + 1,
                          !.j = 1,
                          !.pc = IF arp.i + 1 < ArpRounds THEN "nics" ELSE "done"]
    /\ UNCHANGED <<unifyVars, startVars>>

(***************************************************************************)
(* Specifications.                                                         *)
(***************************************************************************)
InitUnify ==
    /\ cur \in Texts(CurPool, MaxCurOpts)
    /\ src \in Texts(SrcPool, MaxSrcOpts)
    /\ upc = "ready"
    /\ res1 = NoResult /\ res2 = NoResult
    /\ StartIdle /\ ArpIdle

NextUnify == Unify \/ UnifyAgain

SpecUnify == InitUnify /\ [][NextUnify]_vars

InitStart ==
    /\ \E sc \in StartScenarios :
          /\ guest = sc.guest /\ nicHeap = sc.heap
          /\ host = sc.host /\ data = sc.data
    /\ results = <<>>
    /\ UnifyIdle /\ ArpIdle

NextStart == GenerateStartScript

SpecStart == InitStart /\ [][NextStart]_vars

InitArp ==
    /\ \E n \in 0..MaxArpNics :
          arp = [ArpOff EXCEPT !.caller = "idle", !.n = n,
                               !.attempts = [k \in 1..n |-> 0],
                               !.sent = [k \in 1..n |-> 0]]
    /\ UnifyIdle /\ StartIdle

NextArp == StartPresendArp \/ ArpAttempt \/ ArpSleep

\* the Go scheduler runs a runnable goroutine; time.Sleep returns
SpecArp == InitArp /\ [][NextArp]_vars /\ WF_vars(ArpAttempt) /\ WF_vars(ArpSleep)

(***************************************************************************)
(* Properties of the reconciler (SpecUnify).                               *)
(***************************************************************************)
CurOpts == ParseOpts(cur)
SrcOpts == ParseOpts(src)
CurDynamic == SelectSeq(CurOpts, isDynamicOpt)
SrcDynamic == SelectSeq(SrcOpts, isDynamicOpt)
UnifiedOpts == ParseOpts(res1.text)

\* C1: the options of the unified result that the classifier accepts are
\* exactly the destination's own dynamic options, with the destination's
\* values, in their original order, and they are the tail of the result.
C1_DynamicPreserved ==
    (upc # "ready" /\ ~res1.err) =>
        /\ SelectSeq(UnifiedOpts, isDynamicOpt) = CurDynamic
        /\ Len(UnifiedOpts) >= Len(CurDynamic)
        /\ SubSeq(UnifiedOpts, Len(UnifiedOpts) - Len(CurDynamic) + 1, Len(UnifiedOpts))
              = CurDynamic

\* a destination whose dynamic option comes first, reconciled against a source
\* that has the same key with another value and another stable option
C1_Witness ==
    /\ upc = "once" /\ ~res1.err
    /\ Len(CurOpts) = 2 /\ isDynamicOpt(CurOpts[1]) /\ ~isDynamicOpt(CurOpts[2])
    /\ SrcDynamic # <<>>
    /\ SrcDynamic[1].Key = CurDynamic[1].Key
    /\ SrcDynamic[1].Value # CurDynamic[1].Value
    /\ Len(UnifiedOpts) >= 2
    /\ UnifiedOpts[1] # CurOpts[2]

\* C2: reconciling the unified text against the same source again returns it
\* unchanged.
C2_Idempotent ==
    upc = "twice" => (~res2.err /\ res2.text = res1.text)

C2_Witness ==
    /\ upc = "twice" /\ ~res2.err
    /\ res1.text # cur
    /\ CurDynamic # <<>> /\ SrcDynamic # <<>>
    /\ Len(UnifiedOpts) > Len(CurDynamic)

\* C3: an error is returned exactly when the destination text or the source
\* text does not parse; two texts that parse always yield a unified text.
C3_ErrorOnlyUnparsable ==
    upc # "ready" => (res1.err <=> (NewCmdline(cur).err \/ NewCmdline(src).err))

\* two parsable texts whose stable parts have no token in common
C3_Witness ==
    /\ upc = "once" /\ ~res1.err
    /\ LET c == ToString(parseCmdline(cur).cl)
           s == ToString(parseCmdline(src).cl)
       IN  /\ Len(c) >= 2 /\ Len(s) >= 2
           /\ \A i \in 1..Len(c), j \in 1..Len(s) : c[i] # s[j]
    /\ res1.text # cur

(***************************************************************************)
(* Properties of generateStartScript (SpecStart).                          *)
(***************************************************************************)
Calls == 1..Len(results)

Ok(k) == results[k].outcome = "ok"

InputOf(k) == results[k].input[1]

ScriptOf(k) == results[k].script[1]

\* the NICs of the descriptor, before call k, whose bridge the host cannot resolve
UnresolvedNics(k) ==
    { i \in 1..Len(results[k].nicsBefore) :
        results[k].heapBefore[results[k].nicsBefore[i]].Bridge \notin host.bridges }

\* C4: a call on a descriptor with a NIC whose bridge cannot be resolved returns
\* the bridge error and no script.
C4_BridgeError ==
    \A k \in Calls :
        UnresolvedNics(k) # {} =>
            /\ results[k].outcome = "error"
            /\ results[k].err = "Can't find bridge"
            /\ results[k].script = <<>>

\* C5: two calls on the same guest with the same request and host end the same
\* way with the same script text.
C5_SameScriptTwice ==
    Len(results) >= 2 =>
        /\ results[2].outcome = results[1].outcome
        /\ results[2].script = results[1].script

\* C6: the launch options of a macOS guest have SATA disks, e1000 NICs without
\* vectors, UEFI firmware and the q35 machine.
C6_MacosRule ==
    \A k \in Calls :
        (Ok(k) /\ InputOf(k).OsName = "macOS") =>
            /\ \A i \in 1..Len(InputOf(k).Disks) : InputOf(k).Disks[i].Driver = "sata"
            /\ \A i \in 1..Len(InputOf(k).Nics) :
                  /\ InputOf(k).Nics[i].Driver = "e1000"
                  /\ InputOf(k).Nics[i].Vectors = <<0>>
            /\ InputOf(k).BIOS = "UEFI"
            /\ InputOf(k).Machine = "q35"

\* a macOS guest on aarch64 with two disks and a multi-queue NIC
C6_Witness ==
    /\ Len(results) = 1 /\ Ok(1)
    /\ guest.Metadata.os_name = "macOS"
    /\ host.cpuArch = "aarch64"
    /\ Len(InputOf(1).Disks) >= 2
    /\ \E i \in 1..Len(InputOf(1).Nics) : InputOf(1).Nics[i].NumQueues > 1

\* the NICs of the descriptor that call k dropped
Dropped(k) == { results[k].nicsBefore[i] : i \in 2..Len(results[k].nicsBefore) }

AndroidSeveral(k) ==
    /\ Ok(k)
    /\ InputOf(k).OsName = "Android"
    /\ Len(results[k].nicsBefore) > 1

TeardownIfnames(k) == { ScriptOf(k).teardown[i][2] : i \in 1..Len(ScriptOf(k).teardown) }

\* C7 as claimed: one NIC is retained, and a dropped NIC is neither modified by
\* a rule nor referenced by a line of the script.
C7_DroppedFirst ==
    \A k \in Calls :
        AndroidSeveral(k) =>
            /\ InputOf(k).NicIds = <<results[k].nicsBefore[1]>>
            /\ \A n \in Dropped(k) :
                  /\ results[k].heapAfter[n] = results[k].heapBefore[n]
                  /\ results[k].heapBefore[n].Ifname \notin TeardownIfnames(k)

\* C7 as the code has it: one NIC (the first) is retained in the launch options
\* and in the descriptor; every configured NIC, dropped ones included, has its
\* teardown line; a dropped NIC has had the queue rule applied and nothing else.
C7_DroppedLate ==
    \A k \in Calls :
        AndroidSeveral(k) =>
            /\ InputOf(k).NicIds = <<results[k].nicsBefore[1]>>
            /\ Len(InputOf(k).Nics) = 1
            /\ results[k].nicsAfter = <<results[k].nicsBefore[1]>>
            /\ Len(ScriptOf(k).teardown) = Len(results[k].nicsBefore)
            /\ \A i \in 1..Len(results[k].nicsBefore) :
                  ScriptOf(k).teardown[i][2]
                      = results[k].heapBefore[results[k].nicsBefore[i]].Ifname
            /\ \A n \in Dropped(k) :
                  LET before == results[k].heapBefore[n]
                  IN  results[k].heapAfter[n] =
                          IF before.NumQueues > 1
                          THEN [before EXCEPT !.Vectors = <<2 * before.NumQueues>>]
                          ELSE before

\* an Android guest with two NICs, the second with several queues
C7_Witness ==
    /\ Len(results) = 1 /\ AndroidSeveral(1)
    /\ Len(results[1].nicsBefore) = 2
    /\ results[1].heapBefore[results[1].nicsBefore[2]].NumQueues > 1

LegacyWindows ==
    /\ guest.Metadata.os_name = "Windows"
    /\ Len(guest.Metadata.os_version) >= 2
    /\ guest.Metadata.os_version[1] = "5"
    /\ guest.Metadata.os_version[2] = "."

InputDevices == { "usb-kbd", "usb-tablet", "usb-mouse" }

NoInputDevice(k) ==
    \A i \in 1..Len(InputOf(k).Devices) : InputOf(k).Devices[i][1] \notin InputDevices

\* C8 as claimed: a legacy Windows guest gets no USB keyboard and no pointer
\* device, on every host architecture.
C8_LegacyWindowsAnyArch ==
    \A k \in Calls : (Ok(k) /\ LegacyWindows) => NoInputDevice(k)

\* C8 as the code has it: that holds on every host that is not aarch64; an
\* aarch64 host seeds the tablet and the keyboard whatever the OS.
C8_LegacyWindowsX86 ==
    \A k \in Calls :
        (Ok(k) /\ LegacyWindows) =>
            IF host.cpuArch = "aarch64"
            THEN /\ \E i \in 1..Len(InputOf(k).Devices) : InputOf(k).Devices[i][1] = "usb-kbd"
                 /\ \E i \in 1..Len(InputOf(k).Devices) : InputOf(k).Devices[i][1] = "usb-tablet"
            ELSE NoInputDevice(k)

\* Windows "5." on an x86 host, with nothing else that would suppress the keyboard
C8_Witness ==
    /\ Len(results) = 1 /\ Ok(1) /\ LegacyWindows
    /\ guest.Metadata.os_version = <<"5", ".">>
    /\ host.cpuArch = "x86_64"
    /\ guest.Metadata.os_distribution = <<>>
    /\ guest.Metadata.disable_usb_kbd = ""

KvmFlagsUnset(k) ==
    /\ ~InputOf(k).EnableKVM /\ ~InputOf(k).HostCPUPassthrough
    /\ ~InputOf(k).IsCPUIntel /\ ~InputOf(k).IsCPUAMD /\ ~InputOf(k).EnableNested

\* C9: -enable-kvm exactly when the host supports KVM and KVM is not disabled;
\* otherwise -no-kvm exactly on the x86 family and nothing elsewhere; the KVM
\* flags of the launch options are set only with -enable-kvm.
C9_Acceleration ==
    \A k \in Calls :
        Ok(k) =>
            /\ ScriptOf(k).kvmArg = "-enable-kvm" <=> (host.kvmSupport /\ ~host.DisableKVM)
            /\ ScriptOf(k).kvmArg # "-enable-kvm" =>
                  /\ ScriptOf(k).kvmArg = "-no-kvm"
                        <=> host.cpuArch \in { "x86", "i386", "x86_32", "x86_64" }
                  /\ ScriptOf(k).kvmArg \in { "-no-kvm", "" }
                  /\ KvmFlagsUnset(k)
            /\ ScriptOf(k).kvmArg = "-enable-kvm" =>
                  /\ InputOf(k).EnableKVM
                  /\ InputOf(k).HostCPUPassthrough = host.HostCpuPassthrough
                  /\ InputOf(k).IsCPUIntel = host.isIntel
                  /\ InputOf(k).IsCPUAMD = host.isAmd
                  /\ InputOf(k).EnableNested = host.nested

\* KVM supported but disabled on an aarch64 host that offers passthrough and nesting
C9_Witness ==
    /\ Len(results) = 1 /\ Ok(1)
    /\ host.kvmSupport /\ host.DisableKVM /\ host.cpuArch = "aarch64"
    /\ host.HostCpuPassthrough /\ host.nested
    /\ ScriptOf(1).kvmArg = ""

(***************************************************************************)
(* Properties of StartPresendArp (SpecArp).                                *)
(***************************************************************************)
\* C10: the caller has returned as soon as the task exists; in round i every
\* NIC before the loop position has been attempted i + 1 times and every other
\* NIC i times, whatever the attempts' outcomes, and i seconds have been slept;
\* the task ends, and when it has ended every NIC has been attempted ArpRounds
\* times over ArpRounds seconds.
C10_PresendArp ==
    /\ [](arp.pc # "none" => arp.caller = "returned")
    /\ [](arp.pc = "nics" =>
            /\ arp.i < ArpRounds
            /\ arp.clock = arp.i
            /\ \A n \in 1..arp.n :
                  arp.attempts[n] = arp.i + (IF n < arp.j THEN 1 ELSE 0))
    /\ [](arp.pc = "done" =>
            /\ arp.clock = ArpRounds
            /\ \A n \in 1..arp.n : arp.attempts[n] = ArpRounds)
    /\ (arp.caller = "returned" ~> arp.pc = "done")

\* the task has ended although every attempt for the first NIC failed and some
\* attempts for the second did
C10_Witness ==
    /\ arp.pc = "done" /\ arp.caller = "returned"
    /\ arp.n = 2
    /\ arp.sent[1] = 0
    /\ arp.sent[2] > 0 /\ arp.sent[2] < ArpRounds
    /\ arp.attempts[2] = ArpRounds

(***************************************************************************)
(* The classifier on its own: destination texts over every key and value   *)
(* form the closure of parseCmdline tells apart, against a short source.   *)
(***************************************************************************)
ClassifyPool ==
    { Option("incoming", <<"tcp:", "dst">>),
      Option("incoming", <<"defer">>),
      Option("incoming", <<"exec:", "dst">>),
      Option("incoming", <<"file:", "dst">>),
      Option("vnc", <<":", "dst">>),
      Option("vnc", <<>>),
      Option("spice", <<"port=", "dst">>),
      Option("chardev", <<"socket,id=hmqmondev", ",port=dst">>),
      Option("chardev", <<"socket,id=hmpmondev", ",port=dst">>),
      Option("chardev", <<"socket,id=qmqmondev", ",port=dst">>),
      Option("chardev", <<"socket,id=qmpmondev", ",port=dst">>),
      Option("chardev", <<"socket,id=charserial0", ",port=dst">>),
      Option("chardev", <<"pty,id=hmqmondev">>),
      Option("device", <<"socket,id=hmqmondev", ",port=dst">>),
      Option("m", <<"1G">>),
      Option("S", <<>>) }

ClassifySources == { <<>>, ToString(<<Option("m", <<"2G">>), Option("vnc", <<":", "src">>)>>) }

InitClassify ==
    /\ cur \in Texts(ClassifyPool, MaxCurOpts)
    /\ src \in ClassifySources
    /\ upc = "ready"
    /\ res1 = NoResult /\ res2 = NoResult
    /\ StartIdle /\ ArpIdle

SpecClassify == InitClassify /\ [][NextUnify]_vars

\* the classifier as C11 states it
AcceptedByC11(o) ==
    \/ /\ o.Key = "incoming"
       /\ Len(o.Value) >= 1
       /\ o.Value[1] \in { "tcp:", "defer" }
    \/ o.Key \in { "vnc", "spice" }
    \/ /\ o.Key = "chardev"
       /\ Len(o.Value) >= 1
       /\ o.Value[1] \in { "socket,id=hmqmondev", "socket,id=hmpmondev",
                           "socket,id=qmqmondev", "socket,id=qmpmondev" }

\* C11: parseCmdline accepts an option exactly when it is an incoming option
\* with a tcp: or defer value, a vnc or spice option, or a chardev of one of
\* the four monitor sockets; the accepted options, in order, are the ones
\* removed, the others, in order, are the ones kept, and the removed ones are
\* what the reconciled text ends with.
C11_Classifier ==
    (upc # "ready" /\ ~NewCmdline(cur).err) =>
        LET p == parseCmdline(cur)
        IN  /\ ~p.err
            /\ \A i \in 1..Len(CurOpts) : isDynamicOpt(CurOpts[i]) <=> AcceptedByC11(CurOpts[i])
            /\ p.filterOpts = SelectSeq(CurOpts, AcceptedByC11)
            /\ p.cl = SelectSeq(CurOpts, LAMBDA o : ~AcceptedByC11(o))
            /\ Len(p.cl) + Len(p.filterOpts) = Len(CurOpts)
            /\ ~res1.err =>
                  SubSeq(UnifiedOpts, Len(UnifiedOpts) - Len(p.filterOpts) + 1,
                         Len(UnifiedOpts)) = SelectSeq(CurOpts, AcceptedByC11)

\* an incoming option in exec: form before a monitor-socket chardev: the first
\* is kept, the second removed
C11_Witness ==
    /\ upc = "once" /\ ~res1.err
    /\ Len(CurOpts) = 2
    /\ CurOpts[1] = Option("incoming", <<"exec:", "dst">>)
    /\ CurOpts[2].Key = "chardev" /\ CurOpts[2].Value[1] = "socket,id=qmpmondev"
    /\ parseCmdline(cur).cl = <<CurOpts[1]>>
    /\ parseCmdline(cur).filterOpts = <<CurOpts[2]>>

RolesSet(k) == { r \in { "NeedMigrate", "IsSlave", "IsMaster" } : InputOf(k)[r] }

FreshPort(k) ==
    /\ InputOf(k).portAllocs = 1
    /\ InputOf(k).LiveMigratePort > LIVE_MIGRATE_PORT_BASE
    /\ InputOf(k).LiveMigratePort \notin host.usedPorts

\* C12: every call that produces launch options sets at most one migration
\* role, the need_migrate request before the descriptor's IsSlave before its
\* IsMaster; a migration-receiving guest gets a port from the allocator, which
\* the instance records as LiveMigrateDestPort, and the TLS flag exactly when
\* this call's request asks for it; a slave gets a port from the allocator; a
\* master and a guest with no role get port 0 and the allocator is not called.
C12_MigrateRole ==
    \A k \in Calls : Ok(k) =>
        LET opt == InputOf(k)
        IN  /\ Cardinality(RolesSet(k)) <= 1
            /\ opt.NeedMigrate <=> data.need_migrate
            /\ opt.IsSlave <=> (~data.need_migrate /\ guest.IsSlave)
            /\ opt.IsMaster <=> (~data.need_migrate /\ ~guest.IsSlave /\ guest.IsMaster)
            /\ opt.NeedMigrate =>
                  /\ FreshPort(k)
                  /\ opt.LiveMigrateUseTLS <=> data.live_migrate_use_tls
                  /\ k = Len(results) => guest.LiveMigrateDestPort = <<opt.LiveMigratePort>>
            /\ opt.IsSlave => FreshPort(k)
            /\ (~opt.NeedMigrate /\ ~opt.IsSlave) =>
                  /\ opt.LiveMigratePort = 0
                  /\ opt.portAllocs = 0
                  /\ ~opt.LiveMigrateUseTLS

\* a migration is requested without TLS for a guest that is both slave and
\* master and carries the TLS flag of an earlier migration; the first port
\* above the base is taken
C12_Witness ==
    /\ Len(results) = 1 /\ Ok(1)
    /\ data.need_migrate /\ ~data.live_migrate_use_tls
    /\ guest.IsSlave /\ guest.IsMaster /\ guest.LiveMigrateUseTls
    /\ RolesSet(1) = { "NeedMigrate" }
    /\ ~InputOf(1).LiveMigrateUseTLS
    /\ InputOf(1).LiveMigratePort = LIVE_MIGRATE_PORT_BASE + 2
    /\ guest.LiveMigrateDestPort = <<LIVE_MIGRATE_PORT_BASE + 2>>

====
